---- MODULE Spec2Model ----
(***************************************************************************)
(* Model of reqm's override resolver (src/src/reqm/overrides_ext.py) and   *)
(* of the Quant base type (src/src/reqm/quant.py).                         *)
(*                                                                         *)
(* A class statement is modelled in the steps Python takes: the body runs  *)
(* and applies the decorators (ClassStatement), type.__new__ linearizes    *)
(* the bases and creates the class object, __set_name__ fires for every    *)
(* _PendingOverride of the namespace in definition order (SetName), the    *)
(* EnforceOverrides metaclass inspects the namespace (EnforceCheck), and   *)
(* the class is bound (Bind) or the exception propagates and the class     *)
(* object is dropped (Raise).  Instances are created and called by         *)
(* Instantiate, Call and Release.                                          *)
(*                                                                         *)
(* A signature is the number of named parameters after self; KwargsSig is  *)
(* the (self, **kwargs) signature of Quant.__call__.  Two signatures       *)
(* match when they are equal.                                              *)
(***************************************************************************)
EXTENDS Integers, Sequences, FiniteSets, TLC

VARIABLES classes, cur, inst, lastCall

vars == <<classes, cur, inst, lastCall>>

\* ------------------------------------------------------------------ bounds

\* Signatures of user methods: 0..MaxParams named parameters.
MaxParams == 2

\* (self, **kwargs)
KwargsSig == -1

\* Names of the classes a run may define, in the order it defines them.
UserClassNames == <<"U1", "U2">>

Names == {"__call__", "dummy_inputs"}

Sigs == 0..MaxParams

\* ------------------------------------------------------- method objects

\* The attributes a function object or a _PendingOverride object may carry.
NoFlags == [override |-> FALSE, exempt |-> FALSE, final |-> FALSE, abstract |-> FALSE]

\* Values a method returns: None, a str, a dict (keys: the parameters it
\* names, by position) or a list of values.
NoneValue == [type |-> "None", keys |-> {}, items |-> <<>>]

StrValue == [type |-> "str", keys |-> {}, items |-> <<>>]

DictValue(keys) == [type |-> "dict", keys |-> keys, items |-> <<>>]

ListValue(items) == [type |-> "list", keys |-> {}, items |-> items]

\* What a function body does when it runs: return a value or raise.
Returns(v) == [raises |-> "", value |-> v]

Raises(e) == [raises |-> e, value |-> NoneValue]

\* A namespace value: nothing, a plain function m, or a _PendingOverride p
\* wrapping the function m.  m and p are distinct objects with their own
\* attributes.
NoAttr ==
    [kind |-> "none", sig |-> 0, m |-> NoFlags, p |-> NoFlags,
     does |-> Returns(NoneValue)]

\* def name(self, ...): ...   a fresh function object whose body is "...".
DefFunction(sig) ==
    [kind |-> "func", sig |-> sig, m |-> NoFlags, p |-> NoFlags,
     does |-> Returns(NoneValue)]

\* The flags of the object a namespace value is (the outermost object).
Outer(a) == IF a.kind = "pending" THEN a.p ELSE a.m

SetOuter(a, flag) ==
    IF a.kind = "pending"
    THEN [a EXCEPT !.p = [a.p EXCEPT ![flag] = TRUE]]
    ELSE [a EXCEPT !.m = [a.m EXCEPT ![flag] = TRUE]]

\* A variant of allow_any_override that marks the function a pending
\* override wraps instead of the object it is handed.
allow_any_override_MarksWrapped(a) == [a EXCEPT !.m = [a.m EXCEPT !.exempt = TRUE]]

\* allow_any_override(method): method.__allow_any_override__ = True; return method
allow_any_override(a) == SetOuter(a, "exempt")

\* final(method): marks the method sealed.
final(a) == SetOuter(a, "final")

\* abc.abstractmethod(method): method.__isabstractmethod__ = True
abstractmethod(a) == SetOuter(a, "abstract")

\* A variant of PendingOverrideInit that leaves the pending object unmarked.
PendingOverrideInit_NoMarker(a) ==
    [a EXCEPT !.kind = "pending", !.p = a.m]

\* _PendingOverride.__init__: update_wrapper copies the method's attributes
\* to the pending object, then the pending object gets __override__ = True.
PendingOverrideInit(a) ==
    [a EXCEPT !.kind = "pending", !.p = [a.m EXCEPT !.override = TRUE]]

\* override(method) == _PendingOverride(method)
override(a) == PendingOverrideInit(a)

ApplyDecorator(d, a) ==
    CASE d = "allow_any_override" -> allow_any_override(a)
      [] d = "final" -> final(a)
      [] d = "abstractmethod" -> abstractmethod(a)
      [] d = "override" -> override(a)

\* Decorators are applied innermost first: decos[1] is the one written last.
RECURSIVE Decorate(_, _)
Decorate(decos, a) ==
    IF decos = <<>> THEN a
    ELSE Decorate(Tail(decos), ApplyDecorator(Head(decos), a))

\* The decorator stacks a class body may use, innermost first.
DecoratorStacks ==
    { <<>>,
      <<"override">>,
      <<"allow_any_override">>,
      <<"abstractmethod">>,
      <<"final">>,
      <<"allow_any_override", "final">>,
      <<"allow_any_override", "override">>,
      <<"override", "allow_any_override">> }

\* ------------------------------------------------------------- classes

Range(s) == { s[i] : i \in 1..Len(s) }

\* C3 linearization, as type.__new__ computes __mro__.  Conflict marks an
\* inconsistent hierarchy (TypeError: cannot create a consistent MRO).
Conflict == "<conflict>"

RECURSIVE Merge(_)
Merge(seqs) ==
    LET ne == SelectSeq(seqs, LAMBDA s : Len(s) > 0)
    IN  IF Len(ne) = 0 THEN <<>>
        ELSE LET good(i) == \A j \in 1..Len(ne) : Head(ne[i]) \notin Range(Tail(ne[j]))
                 cands == { i \in 1..Len(ne) : good(i) }
             IN  IF cands = {} THEN <<Conflict>>
                 ELSE LET i == CHOOSE k \in cands : \A l \in cands : k <= l
                          h == Head(ne[i])
                          strip(s) == IF Len(s) > 0 /\ Head(s) = h THEN Tail(s) ELSE s
                      IN  <<h>> \o Merge([k \in 1..Len(ne) |-> strip(ne[k])])

Mro(id, bases) ==
    <<id>> \o Merge([k \in 1..Len(bases) |-> classes[bases[k]].mro] \o <<bases>>)

\* The metaclass: EnforceOverridesMeta (an ABCMeta) once any base has it.
Meta(bases) ==
    IF \E k \in 1..Len(bases) : classes[bases[k]].meta = "EnforceOverridesMeta"
    THEN "EnforceOverridesMeta" ELSE "type"

EmptyNs == [n \in Names |-> NoAttr]

ObjectClass ==
    [mro |-> <<"object">>, ns |-> EmptyNs, meta |-> "type", abstracts |-> {}]

EnforceOverridesClass ==
    [mro |-> <<"EnforceOverrides", "object">>, ns |-> EmptyNs,
     meta |-> "EnforceOverridesMeta", abstracts |-> {}]

\* class Quant(EnforceOverrides): abstract, exempt __call__(self, **kwargs)
\* and abstract dummy_inputs(self).
QuantCall == abstractmethod(allow_any_override(DefFunction(KwargsSig)))

\* A variant of Quant.dummy_inputs that is not abstract.
QuantDummyInputs_NotAbstract == DefFunction(0)

QuantDummyInputs == abstractmethod(DefFunction(0))

QuantClass ==
    [mro |-> <<"Quant", "EnforceOverrides", "object">>,
     ns |-> [n \in Names |-> IF n = "__call__" THEN QuantCall ELSE QuantDummyInputs],
     meta |-> "EnforceOverridesMeta",
     abstracts |-> { n \in Names :
                      (IF n = "__call__" THEN QuantCall ELSE QuantDummyInputs).m.abstract }]

\* No class statement is running.  A running one holds: the namespace the
\* body built (ns: the objects by name, order: the definition order), the
\* names whose class attribute __set_name__ replaced by the plain method
\* (installed), the next namespace entry whose __set_name__ is due (idx),
\* whether the metaclass has inspected the namespace (enforced), and the
\* TypeError raised (error, errName).
Idle ==
    [pc |-> "idle", id |-> "", bases |-> <<>>, mro |-> <<>>, order |-> <<>>,
     ns |-> EmptyNs, installed |-> {}, idx |-> 0, enforced |-> FALSE,
     error |-> "", errName |-> ""]

\* The live instance's class ("": none) and the last call made on it.
NoCall == [cls |-> "", name |-> "", ran |-> ""]

Init ==
    /\ classes = [c \in {"object", "EnforceOverrides", "Quant"} |->
                    CASE c = "object" -> ObjectClass
                      [] c = "EnforceOverrides" -> EnforceOverridesClass
                      [] c = "Quant" -> QuantClass]
    /\ cur = Idle
    /\ inst = ""
    /\ lastCall = NoCall

\* ------------------------------------------------------ class statement

Defined == DOMAIN classes

UserDefined == { c \in Defined : c \in Range(UserClassNames) }

\* The bases of the next class statement: a root class for the first user
\* class; for the next ones the user class defined last, alone or beside
\* Quant in either order.
Roots == {"object", "EnforceOverrides", "Quant"}

BaseSeqs ==
    IF UserDefined = {} THEN { <<b>> : b \in Roots }
    ELSE LET last == UserClassNames[Cardinality(UserDefined)]
         IN  { <<last>>, <<last, "Quant">>, <<"Quant", last>> }

DefDoing(name, sig, decos, does) ==
    [name |-> name, sig |-> sig, decos |-> decos, does |-> does]

Def(name, sig, decos) == DefDoing(name, sig, decos, Returns(NoneValue))

Defs == { Def(n, s, d) : n \in Names, s \in Sigs, d \in DecoratorStacks }

\* The class bodies of a run: empty, one definition of any name, signature
\* and decorator stack, or both names defined, plain or with @override, in
\* either order (dummy_inputs then keeps the signature (self)).
PairStacks == { <<>>, <<"override">> }

PairDefs ==
    { Def("__call__", s, d) : s \in Sigs, d \in PairStacks } \cup
    { Def("dummy_inputs", 0, d) : d \in PairStacks }

Bodies ==
    { <<>> } \cup { <<d>> : d \in Defs } \cup
    { b \in PairDefs \X PairDefs : b[1].name # b[2].name }

\* The namespace the body leaves: each definition decorated.
BodyNamespace(body) ==
    [n \in Names |->
        IF \E i \in 1..Len(body) : body[i].name = n
        THEN LET d == body[CHOOSE i \in 1..Len(body) : body[i].name = n]
             IN  Decorate(d.decos, [DefFunction(d.sig) EXCEPT !.does = d.does])
        ELSE NoAttr]

\* The first entry at or after i that has a __set_name__ (a pending
\* override); Len(order) + 1 when none has.
NextPending(order, ns, i) ==
    LET rest == { k \in i..Len(order) : ns[order[k]].kind = "pending" }
    IN  IF rest = {} THEN Len(order) + 1
        ELSE CHOOSE k \in rest : \A l \in rest : k <= l

\* class id(bases): body.  The body runs, then type.__new__ linearizes the
\* bases and creates the class object.
ClassStatement(bases, body) ==
    /\ cur.pc = "idle"
    /\ inst = ""
    /\ Cardinality(UserDefined) < Len(UserClassNames)
    /\ LET id == UserClassNames[Cardinality(UserDefined) + 1]
           ns == BodyNamespace(body)
           order == [i \in 1..Len(body) |-> body[i].name]
           mro == Mro(id, bases)
       IN  cur' = IF Conflict \in Range(mro)
                  THEN [Idle EXCEPT !.pc = "failed", !.id = id, !.bases = bases,
                                    !.error = "mro"]
                  ELSE [Idle EXCEPT !.pc = IF NextPending(order, ns, 1) <= Len(order)
                                           THEN "set_name" ELSE "created",
                                    !.id = id, !.bases = bases, !.mro = mro,
                                    !.order = order, !.ns = ns,
                                    !.idx = NextPending(order, ns, 1),
                                    !.enforced = (Meta(bases) = "type")]
    /\ UNCHANGED <<classes, inst, lastCall>>

\* ---------------------------------------------- _PendingOverride.__set_name__

\* A variant of ParentClass that looks at the direct base only.
ParentClass_DirectBaseOnly(mro, name) ==
    IF Len(mro) >= 2 /\ classes[mro[2]].ns[name].kind # "none" THEN mro[2] ELSE ""

\* for base in owner.__mro__[1:]: if name in vars(base): parent found.
\* The class that holds the parent, or "" when parent is None.
ParentClass(mro, name) ==
    LET hits == { k \in 2..Len(mro) : classes[mro[k]].ns[name].kind # "none" }
    IN  IF hits = {} THEN ""
        ELSE mro[CHOOSE k \in hits : \A l \in hits : k <= l]

\* getattr(parent, "__final__", False)
ParentIsFinal(parent) == Outer(parent).final

\* Variants of Resolve with a slip in them, used to show that the checked
\* properties depend on the resolution logic.
Resolve_StrictSignature(mro, name) ==
    LET pcls == ParentClass(mro, name)
    IN  IF pcls = "" THEN "no_parent"
        ELSE IF ParentIsFinal(classes[pcls].ns[name]) THEN "final"
        ELSE IF classes[pcls].ns[name].sig # cur.ns[name].sig THEN "signature"
        ELSE "install"

Resolve_ExemptSkipsParentCheck(mro, name) ==
    LET pcls == ParentClass(mro, name)
    IN  IF pcls = ""
        THEN (IF cur.ns[name].m.exempt THEN "install" ELSE "no_parent")
        ELSE IF ParentIsFinal(classes[pcls].ns[name]) THEN "final"
        ELSE "install"

Resolve_ExemptBeforeFinal(mro, name) ==
    LET pcls == ParentClass(mro, name)
    IN  IF pcls = "" THEN "no_parent"
        ELSE IF Outer(classes[pcls].ns[name]).exempt THEN "install"
        ELSE IF ParentIsFinal(classes[pcls].ns[name]) THEN "final"
        ELSE "install"

Resolve_SealedAnywhere(mro, name) ==
    LET pcls == ParentClass(mro, name)
    IN  IF pcls = "" THEN "no_parent"
        ELSE IF \E k \in 2..Len(mro) :
                   /\ classes[mro[k]].ns[name].kind # "none"
                   /\ ParentIsFinal(classes[mro[k]].ns[name])
             THEN "final"
        ELSE "install"

Resolve_NoParentCheck(mro, name) ==
    LET pcls == ParentClass(mro, name)
    IN  IF pcls = "" THEN "install"
        ELSE IF ParentIsFinal(classes[pcls].ns[name]) THEN "final"
        ELSE "install"

\* What __set_name__(owner, name) decides: "no_parent" and "final" raise
\* TypeError, "install" tags the method and replaces the descriptor.  The
\* parent's __allow_any_override__ and the two signatures are not read.
Resolve(mro, name) ==
    LET pcls == ParentClass(mro, name)
    IN  IF pcls = "" THEN "no_parent"
        ELSE IF ParentIsFinal(classes[pcls].ns[name]) THEN "final"
        ELSE "install"

\* A variant of SetName that tags the method before the two checks.
SetName_TagsBeforeChecks ==
    /\ cur.pc = "set_name"
    /\ LET name == cur.order[cur.idx]
           res == Resolve(cur.mro, name)
           nxt == NextPending(cur.order, cur.ns, cur.idx + 1)
       IN  IF res # "install"
           THEN cur' = [cur EXCEPT !.ns[name].m.override = TRUE,
                                   !.pc = "failed", !.error = res,
                                   !.errName = name]
           ELSE cur' = [cur EXCEPT
                          !.ns[name].m.override = TRUE,
                          !.installed = @ \cup {name},
                          !.idx = nxt,
                          !.pc = IF nxt <= Len(cur.order)
                                 THEN "set_name" ELSE "created"]
    /\ UNCHANGED <<classes, inst, lastCall>>

\* A variant of SetName that installs the method without tagging it.
SetName_NoTag ==
    /\ cur.pc = "set_name"
    /\ LET name == cur.order[cur.idx]
           res == Resolve(cur.mro, name)
           nxt == NextPending(cur.order, cur.ns, cur.idx + 1)
       IN  IF res # "install"
           THEN cur' = [cur EXCEPT !.pc = "failed", !.error = res,
                                   !.errName = name]
           ELSE cur' = [cur EXCEPT
                          !.installed = @ \cup {name},
                          !.idx = nxt,
                          !.pc = IF nxt <= Len(cur.order)
                                 THEN "set_name" ELSE "created"]
    /\ UNCHANGED <<classes, inst, lastCall>>

\* A variant of SetName that hands the parent's exemption on to the method
\* it installs.
SetName_InheritsExemption ==
    /\ cur.pc = "set_name"
    /\ LET name == cur.order[cur.idx]
           res == Resolve(cur.mro, name)
           nxt == NextPending(cur.order, cur.ns, cur.idx + 1)
       IN  IF res # "install"
           THEN cur' = [cur EXCEPT !.pc = "failed", !.error = res,
                                   !.errName = name]
           ELSE cur' = [cur EXCEPT
                          !.ns[name].m.override = TRUE,
                          !.ns[name].m.exempt =
                              @ \/ classes[ParentClass(cur.mro, name)].ns[name].m.exempt,
                          !.installed = @ \cup {name},
                          !.idx = nxt,
                          !.pc = IF nxt <= Len(cur.order)
                                 THEN "set_name" ELSE "created"]
    /\ UNCHANGED <<classes, inst, lastCall>>

\* __set_name__(owner, name) of the pending override at cur.idx.
SetName ==
    /\ cur.pc = "set_name"
    /\ LET name == cur.order[cur.idx]
           res == Resolve(cur.mro, name)
           nxt == NextPending(cur.order, cur.ns, cur.idx + 1)
       IN  IF res # "install"
           THEN cur' = [cur EXCEPT !.pc = "failed", !.error = res,
                                   !.errName = name]
           ELSE cur' = [cur EXCEPT
                          !.ns[name].m.override = TRUE,
                          !.installed = @ \cup {name},
                          !.idx = nxt,
                          !.pc = IF nxt <= Len(cur.order)
                                 THEN "set_name" ELSE "created"]
    /\ UNCHANGED <<classes, inst, lastCall>>

\* ------------------------------------------------- EnforceOverrides metaclass

\* The names of the namespace that redefine an ancestor's method and whose
\* namespace value carries no __override__ marker.
MissingOverride(c) ==
    { n \in Range(c.order) :
        ParentClass(c.mro, n) # "" /\ ~Outer(c.ns[n]).override }

\* The metaclass inspects the namespace of the class statement once: before
\* any __set_name__ fires, or after type.__new__ has returned.
EnforceCheck ==
    /\ ~cur.enforced
    /\ \/ cur.pc = "created"
       \/ cur.pc = "set_name" /\ cur.installed = {}
    /\ LET missing == MissingOverride(cur)
       IN  IF missing # {}
           THEN cur' = [cur EXCEPT
                          !.pc = "failed", !.error = "missing_override",
                          !.errName = cur.order[CHOOSE i \in 1..Len(cur.order) :
                              /\ cur.order[i] \in missing
                              /\ \A j \in 1..(i - 1) : cur.order[j] \notin missing]]
           ELSE cur' = [cur EXCEPT !.enforced = TRUE]
    /\ UNCHANGED <<classes, inst, lastCall>>

\* ------------------------------------------------------------ binding

\* A variant of ClassDict in which the pending object stays the owner's
\* attribute.
ClassDict_KeepsDescriptor(c, n) == c.ns[n]

\* A variant of ClassDict that installs a fresh function carrying only the
\* validated-override tag.
ClassDict_FreshFunction(c, n) ==
    IF n \in c.installed
    THEN [c.ns[n] EXCEPT !.kind = "func", !.p = NoFlags,
                         !.m = [NoFlags EXCEPT !.override = TRUE]]
    ELSE c.ns[n]

\* The class's own __dict__ entry for a name once type.__new__ is through.
ClassDict(c, n) ==
    IF n \in c.installed
    THEN [c.ns[n] EXCEPT !.kind = "func", !.p = NoFlags]
    ELSE c.ns[n]

\* getattr(cls, name) of a class with this __dict__ and this __mro__.
GetAttr(dict, mro, n) ==
    IF dict[n].kind # "none" THEN dict[n]
    ELSE IF ParentClass(mro, n) = "" THEN NoAttr
    ELSE classes[ParentClass(mro, n)].ns[n]

\* ABCMeta.__new__: the names still abstract in the new class.
Abstracts(dict, mro, bases, meta) ==
    IF meta = "type" THEN {}
    ELSE { n \in Names : dict[n].kind # "none" /\ Outer(dict[n]).abstract }
         \cup { n \in UNION { classes[bases[k]].abstracts : k \in 1..Len(bases) } :
                 Outer(GetAttr(dict, mro, n)).abstract }

\* The class statement completes: the class object is bound to its name.
Bind ==
    /\ cur.pc = "created"
    /\ cur.enforced
    /\ LET dict == [n \in Names |-> ClassDict(cur, n)]
           meta == Meta(cur.bases)
       IN  classes' = classes @@ (cur.id :>
                        [mro |-> cur.mro, ns |-> dict, meta |-> meta,
                         abstracts |-> Abstracts(dict, cur.mro, cur.bases, meta)])
    /\ cur' = Idle
    /\ UNCHANGED <<inst, lastCall>>

\* The TypeError propagates out of the class statement: the class object is
\* never bound.
Raise ==
    /\ cur.pc = "failed"
    /\ cur' = Idle
    /\ UNCHANGED <<classes, inst, lastCall>>

\* ------------------------------------------------------------ instances

\* The class whose definition a call of name on an instance of c runs.
Dispatch(c, n) ==
    IF classes[c].ns[n].kind # "none" THEN c ELSE ParentClass(classes[c].mro, n)

\* c(): object.__new__ refuses a class with abstract methods (TypeError).
Instantiate(c) ==
    /\ cur.pc = "idle"
    /\ inst = ""
    /\ c \in Defined
    /\ classes[c].abstracts = {}
    /\ inst' = c
    /\ lastCall' = NoCall
    /\ UNCHANGED <<classes, cur>>

\* instance.name(...) on the live instance.
Call(n) ==
    /\ cur.pc = "idle"
    /\ inst # ""
    /\ lastCall' = [cls |-> inst, name |-> n,
                    ran |-> IF Dispatch(inst, n) = "" THEN "AttributeError"
                            ELSE Dispatch(inst, n)]
    /\ UNCHANGED <<classes, cur, inst>>

\* The instance becomes unreferenced.
Release ==
    /\ cur.pc = "idle"
    /\ inst # ""
    /\ inst' = ""
    /\ lastCall' = NoCall
    /\ UNCHANGED <<classes, cur>>

AllClasses == Roots \cup Range(UserClassNames)

Next ==
    \/ \E bases \in BaseSeqs, body \in Bodies : ClassStatement(bases, body)
    \/ SetName
    \/ EnforceCheck
    \/ Bind
    \/ Raise
    \/ \E c \in AllClasses : Instantiate(c)
    \/ \E n \in Names : Call(n)
    \/ Release

Spec == Init /\ [][Next]_vars

\* ------------------------------------------- the decorators, call by call

\* A class body has executed def __call__(self, ...) and
\* def dummy_inputs(self); the decorators are then called on the two objects
\* one call at a time, in any order and any number of times.  lastCall
\* records the decorator called last (ran) and the name it was handed.
InitDecorators ==
    /\ classes = [c \in {"object", "EnforceOverrides", "Quant"} |->
                    CASE c = "object" -> ObjectClass
                      [] c = "EnforceOverrides" -> EnforceOverridesClass
                      [] c = "Quant" -> QuantClass]
    /\ \E s \in Sigs \cup {KwargsSig} :
          cur = [Idle EXCEPT
                   !.pc = "body",
                   !.order = <<"__call__", "dummy_inputs">>,
                   !.ns = [n \in Names |-> IF n = "__call__" THEN DefFunction(s)
                                           ELSE DefFunction(0)]]
    /\ inst = ""
    /\ lastCall = NoCall

\* allow_any_override(ns[n])
MarkExempt(n) ==
    /\ cur.pc = "body"
    /\ cur' = [cur EXCEPT !.ns[n] = allow_any_override(cur.ns[n])]
    /\ lastCall' = [cls |-> "", name |-> n, ran |-> "allow_any_override"]
    /\ UNCHANGED <<classes, inst>>

\* final(ns[n])
MarkFinal(n) ==
    /\ cur.pc = "body"
    /\ cur' = [cur EXCEPT !.ns[n] = final(cur.ns[n])]
    /\ lastCall' = [cls |-> "", name |-> n, ran |-> "final"]
    /\ UNCHANGED <<classes, inst>>

\* abstractmethod(ns[n])
MarkAbstract(n) ==
    /\ cur.pc = "body"
    /\ cur' = [cur EXCEPT !.ns[n] = abstractmethod(cur.ns[n])]
    /\ lastCall' = [cls |-> "", name |-> n, ran |-> "abstractmethod"]
    /\ UNCHANGED <<classes, inst>>

\* override(ns[n]), on a function that is not wrapped yet.
WrapOverride(n) ==
    /\ cur.pc = "body"
    /\ cur.ns[n].kind = "func"
    /\ cur' = [cur EXCEPT !.ns[n] = override(cur.ns[n])]
    /\ lastCall' = [cls |-> "", name |-> n, ran |-> "override"]
    /\ UNCHANGED <<classes, inst>>

NextDecorators ==
    \/ \E n \in Names : MarkExempt(n)
    \/ \E n \in Names : MarkFinal(n)
    \/ \E n \in Names : MarkAbstract(n)
    \/ \E n \in Names : WrapOverride(n)

SpecDecorators == InitDecorators /\ [][NextDecorators]_vars

\* ------------------------------------- the repository's Quant subclasses

\* class EchoQuant(Quant): __call__(self, text) -> str,
\* dummy_inputs -> [{"text": ...}]
EchoQuantBody ==
    << DefDoing("__call__", 1, <<"override">>, Returns(StrValue)),
       DefDoing("dummy_inputs", 0, <<"override">>,
                Returns(ListValue(<<DictValue({1})>>))) >>

\* class MultiInputQuant(Quant): three input dicts.
MultiInputQuantBody ==
    << DefDoing("__call__", 1, <<"override">>, Returns(StrValue)),
       DefDoing("dummy_inputs", 0, <<"override">>,
                Returns(ListValue(<<DictValue({1}), DictValue({1}), DictValue({1})>>))) >>

\* class NoArgsCallQuant(Quant): __call__(self), dummy_inputs -> [{}]
NoArgsCallQuantBody ==
    << DefDoing("__call__", 0, <<"override">>, Returns(StrValue)),
       DefDoing("dummy_inputs", 0, <<"override">>,
                Returns(ListValue(<<DictValue({})>>))) >>

\* class NarrowedQuant(Quant): __call__(self, x, y),
\* dummy_inputs -> [{"x": 1, "y": 2}]
NarrowedQuantBody ==
    << DefDoing("__call__", 2, <<"override">>, Returns(StrValue)),
       DefDoing("dummy_inputs", 0, <<"override">>,
                Returns(ListValue(<<DictValue({1, 2})>>))) >>

\* class Summarizer(Quant): dummy_inputs returns the dict {"text": ...},
\* __call__(self, text) raises NotImplementedError.
SummarizerBody ==
    << DefDoing("dummy_inputs", 0, <<"override">>, Returns(DictValue({1}))),
       DefDoing("__call__", 1, <<"override">>, Raises("NotImplementedError")) >>

\* class VerboseSummarizer(Summarizer), class FastSummarizer(Summarizer):
\* __call__(self, text) -> str only.
VerboseSummarizerBody ==
    << DefDoing("__call__", 1, <<"override">>, Returns(StrValue)) >>

\* class Greeter(Quant): both methods without @override, dummy_inputs
\* returns the dict {"name": "world"}.
GreeterBody ==
    << DefDoing("dummy_inputs", 0, <<>>, Returns(DictValue({1}))),
       DefDoing("__call__", 1, <<>>, Returns(StrValue)) >>

\* The class statements of the tests and the examples: the Quant
\* subclasses, and the subclasses of a class defined before.
RepoStatements ==
    { <<<<"Quant">>, b>> :
        b \in {EchoQuantBody, MultiInputQuantBody, NoArgsCallQuantBody,
               NarrowedQuantBody, SummarizerBody, GreeterBody} }
    \cup (IF UserDefined = {} THEN {}
          ELSE { << <<UserClassNames[Cardinality(UserDefined)]>>,
                    VerboseSummarizerBody >> })

\* The function a call of name n on an instance of c runs.
Method(c, n) == classes[Dispatch(c, n)].ns[n]

\* quant(**inputs): "" when the call returns, else the exception raised.
\* ** needs a mapping, and the keys must be the parameters of __call__.
Expand(c, inputs) ==
    IF Dispatch(c, "__call__") = "" THEN "TypeError" ELSE
    LET f == Method(c, "__call__")
    IN  IF inputs.type # "dict" THEN "TypeError"
        ELSE IF f.sig # KwargsSig /\ inputs.keys # 1..f.sig THEN "TypeError"
        ELSE f.does.raises

\* for inputs in value: a list yields its items, a dict its keys (strs).
Iterate(v) ==
    IF v.type = "list" THEN v.items
    ELSE [i \in 1..Cardinality(v.keys) |-> StrValue]

\* for inputs in quant.dummy_inputs(): quant(**inputs)
\* "passed", or the first exception raised.
SelfCheckOutcome(c) ==
    IF Dispatch(c, "dummy_inputs") = "" THEN "AttributeError" ELSE
    LET d == Method(c, "dummy_inputs").does
    IN  IF d.raises # "" THEN d.raises
        ELSE IF d.value.type \notin {"list", "dict"} THEN "TypeError"
        ELSE LET its == Iterate(d.value)
                 bad == { i \in 1..Len(its) : Expand(c, its[i]) # "" }
             IN  IF bad = {} THEN "passed"
                 ELSE Expand(c, its[CHOOSE i \in bad : \A j \in bad : i <= j])

\* The self-check loop on the live instance.
SelfCheck ==
    /\ cur.pc = "idle"
    /\ inst # ""
    /\ lastCall' = [cls |-> inst, name |-> "dummy_inputs",
                    ran |-> SelfCheckOutcome(inst)]
    /\ UNCHANGED <<classes, cur, inst>>

NextSelfCheck ==
    \/ \E st \in RepoStatements : ClassStatement(st[1], st[2])
    \/ SetName
    \/ EnforceCheck
    \/ Bind
    \/ Raise
    \/ \E c \in AllClasses : Instantiate(c)
    \/ SelfCheck
    \/ Release

SpecSelfCheck == Init /\ [][NextSelfCheck]_vars

\* ================================================================ claims

\* The class object of the running class statement exists (its __mro__ is
\* known): the statement is past type.__new__'s linearization.
Running == cur.pc \in {"set_name", "created", "failed"} /\ cur.error # "mro"

\* The positions after the owner in mro whose class is the first to define
\* n in its own namespace: empty, or one position.
NearestPos(mro, n) ==
    { k \in 2..Len(mro) :
        /\ classes[mro[k]].ns[n].kind # "none"
        /\ \A j \in 2..(k - 1) : classes[mro[j]].ns[n].kind = "none" }

\* Class c holds a method n that went through override resolution.
Tagged(c, n) == classes[c].ns[n].kind # "none" /\ classes[c].ns[n].m.override

\* C1: an override of a method whose nearest-ancestor definition is not
\* exempt fails class construction with a signature error when its signature
\* differs from the parent's, and is accepted when the signature matches.
\* Stated on states: no constructed class holds a validated override whose
\* signature differs from its non-exempt parent's, and no resolution of an
\* override that matches its non-exempt, non-sealed parent fails.
C1_SignatureEnforced ==
    /\ \A c \in UserDefined, n \in Names :
         \A k \in NearestPos(classes[c].mro, n) :
            LET par == classes[classes[c].mro[k]].ns[n]
            IN  Tagged(c, n) /\ ~par.m.exempt => classes[c].ns[n].sig = par.sig
    /\ \A n \in Names :
         Running /\ cur.ns[n].kind = "pending" =>
           \A k \in NearestPos(cur.mro, n) :
              LET par == classes[cur.mro[k]].ns[n]
              IN  ~par.m.exempt /\ ~par.m.final /\ par.sig = cur.ns[n].sig
                    => ~(cur.pc = "failed" /\ cur.errName = n)

\* C2: a class statement with an @override method whose name no class after
\* the owner in the owner's MRO defines never yields a class: the method is
\* never installed, type.__new__ never returns, and the TypeError raised for
\* that name is the "does not override any method" one, whatever exemption
\* flags the overriding method carries.
C2_NoParentAlwaysFails ==
    \A n \in Names :
        Running /\ cur.ns[n].kind = "pending" /\ NearestPos(cur.mro, n) = {} =>
            /\ cur.pc # "created"
            /\ n \notin cur.installed
            /\ cur.pc = "set_name" => \E i \in cur.idx..Len(cur.order) : cur.order[i] = n
            /\ cur.pc = "failed" /\ cur.errName = n => cur.error = "no_parent"
            /\ cur.pc = "failed" => cur.id \notin Defined

\* The no-parent TypeError was raised for an override that is itself marked
\* exempt.
C2_Witness ==
    /\ cur.pc = "failed" /\ cur.error = "no_parent"
    /\ cur.ns[cur.errName].m.exempt
    /\ NearestPos(cur.mro, cur.errName) = {}

\* C3: an override of a method whose nearest-ancestor definition is exempt
\* (and not sealed) is accepted with every signature: its resolution
\* installs it and never fails, and a call on an instance of the constructed
\* class runs the overriding method.
C3_ExemptParentAcceptsAnySignature ==
    /\ \A n \in Names :
         Running /\ cur.ns[n].kind = "pending" =>
           \A k \in NearestPos(cur.mro, n) :
              LET par == classes[cur.mro[k]].ns[n]
              IN  par.m.exempt /\ ~par.m.final =>
                    /\ Resolve(cur.mro, n) = "install"
                    /\ ~(cur.pc = "failed" /\ cur.errName = n)
                    /\ cur.pc = "created" => n \in cur.installed
    /\ \A c \in UserDefined, n \in Names :
         \A k \in NearestPos(classes[c].mro, n) :
            Tagged(c, n) /\ classes[classes[c].mro[k]].ns[n].m.exempt =>
               /\ Dispatch(c, n) = c
               /\ lastCall.cls = c /\ lastCall.name = n => lastCall.ran = c

\* Two constructed classes override exempt parents with signatures that
\* differ from the parent's and from each other, and a call on an instance
\* of the second ran its override.
C3_Witness ==
    /\ Len(UserClassNames) >= 2
    /\ LET a == UserClassNames[1]
           b == UserClassNames[2]
       IN  /\ {a, b} \subseteq Defined
           /\ \E n \in Names :
                /\ Tagged(a, n) /\ Tagged(b, n)
                /\ classes[a].ns[n].m.exempt
                /\ \E k \in NearestPos(classes[a].mro, n) :
                      /\ classes[classes[a].mro[k]].ns[n].m.exempt
                      /\ classes[classes[a].mro[k]].ns[n].sig # classes[a].ns[n].sig
                /\ classes[b].mro[2] = a
                /\ classes[b].ns[n].sig # classes[a].ns[n].sig
                /\ classes[b].ns[n].sig = MaxParams
                /\ lastCall = [cls |-> b, name |-> n, ran |-> b]

\* C4: an override of a method whose nearest-ancestor definition is sealed
\* never yields a class, also when that definition is exempt as well: the
\* resolution decides "final", the method is never installed, and no
\* constructed class holds a validated override of a sealed parent.
C4_SealedParentAlwaysFails ==
    /\ \A n \in Names :
         Running /\ cur.ns[n].kind = "pending" =>
           \A k \in NearestPos(cur.mro, n) :
              classes[cur.mro[k]].ns[n].m.final =>
                 /\ Resolve(cur.mro, n) = "final"
                 /\ cur.pc # "created"
                 /\ n \notin cur.installed
                 /\ cur.pc = "failed" /\ cur.errName = n => cur.error = "final"
    /\ \A c \in UserDefined, n \in Names :
         \A k \in NearestPos(classes[c].mro, n) :
            Tagged(c, n) => ~classes[classes[c].mro[k]].ns[n].m.final

\* The sealed-parent TypeError was raised for a parent that is exempt too.
C4_Witness ==
    /\ cur.pc = "failed" /\ cur.error = "final"
    /\ \E k \in NearestPos(cur.mro, cur.errName) :
          /\ classes[cur.mro[k]].ns[cur.errName].m.final
          /\ classes[cur.mro[k]].ns[cur.errName].m.exempt

\* C5: when A.m is exempt, B(A) overrides m without re-marking it exempt
\* and C(B) overrides m, a C.m whose signature differs from B.m is rejected:
\* no constructed class holds such an override.
C5_GrandchildLockedToParentSignature ==
    \A c \in UserDefined, n \in Names :
       \A k \in NearestPos(classes[c].mro, n) :
          LET b == classes[c].mro[k]
          IN  ( /\ Tagged(c, n)
                /\ b \in UserDefined
                /\ Tagged(b, n)
                /\ ~classes[b].ns[n].m.exempt
                /\ \E j \in NearestPos(classes[b].mro, n) :
                      classes[classes[b].mro[j]].ns[n].m.exempt )
              => classes[c].ns[n].sig = classes[b].ns[n].sig

\* C6: an exempt base method need not be re-declared down the chain: when
\* the classes between the owner and the exempt definition do not define
\* the name, the definition found is that exempt one and the override is
\* accepted with any signature.
C6_ExemptionReachesThroughChain ==
    \A n \in Names :
        Running /\ cur.ns[n].kind = "pending" =>
          \A k \in NearestPos(cur.mro, n) :
             LET par == classes[cur.mro[k]].ns[n]
             IN  k >= 3 /\ par.m.exempt /\ ~par.m.final =>
                   /\ ParentClass(cur.mro, n) = cur.mro[k]
                   /\ cur.pc = "failed" => cur.errName # n
                   /\ cur.pc = "created" => n \in cur.installed /\ cur.ns[n].m.override

\* A constructed class overrides, with a signature of its own, an exempt
\* method that its direct base does not define.
C6_Witness ==
    \E c \in UserDefined, n \in Names :
       /\ Tagged(c, n)
       /\ \E k \in NearestPos(classes[c].mro, n) :
             /\ k >= 3
             /\ classes[classes[c].mro[k]].ns[n].m.exempt
             /\ classes[classes[c].mro[k]].ns[n].sig # classes[c].ns[n].sig
             /\ classes[c].ns[n].sig > 0

StillAbstract(c, n) ==
    Dispatch(c, n) # "" /\ classes[Dispatch(c, n)].ns[n].m.abstract

IsQuant(c) == c \in Defined /\ "Quant" \in Range(classes[c].mro)

\* C8: Quant and every subclass that still has an abstract __call__ or
\* dummy_inputs along its MRO is never instantiated, though such a subclass
\* is defined; a subclass that overrides both with concrete methods can be
\* instantiated, and calls on it run the subclass's methods.
C8_AbstractQuantNotInstantiable ==
    /\ inst # "Quant"
    /\ inst # "" /\ IsQuant(inst) =>
         \A n \in Names : ~StillAbstract(inst, n) /\ Dispatch(inst, n) # "Quant"
    /\ \A c \in UserDefined :
         IsQuant(c) =>
           ( classes[c].abstracts = {} <=> \A n \in Names : ~StillAbstract(c, n) )
    /\ lastCall.cls # "" /\ IsQuant(lastCall.cls) =>
         lastCall.ran \in UserDefined

\* An incomplete Quant subclass is defined, a subclass of it that overrides
\* what was missing is instantiated, and its __call__ has run.
C8_Witness ==
    /\ \E c \in UserDefined : IsQuant(c) /\ classes[c].abstracts # {}
    /\ inst # "" /\ IsQuant(inst)
    /\ lastCall.cls = inst /\ lastCall.name = "__call__"
    /\ lastCall.ran \in UserDefined

\* C9: every override failure (no matching parent, sealed parent, signature
\* mismatch against a non-exempt parent) is raised while the class is
\* constructed: no defined class holds such an override, and no instance
\* of such a class exists.
FailingOverride(c, n) ==
    /\ Tagged(c, n)
    /\ \/ NearestPos(classes[c].mro, n) = {}
       \/ \E k \in NearestPos(classes[c].mro, n) :
             LET par == classes[classes[c].mro[k]].ns[n]
             IN  par.m.final \/ (~par.m.exempt /\ par.sig # classes[c].ns[n].sig)

C9_NoClassWithFailingOverride ==
    /\ \A c \in UserDefined, n \in Names : ~FailingOverride(c, n)
    /\ inst \in UserDefined => \A n \in Names : ~FailingOverride(inst, n)

\* C10: every method of a constructed class that carries the
\* validated-override tag has a same-named method in the own namespace of a
\* class after the owner in the owner's MRO.
C10_ValidatedOverrideHasAncestor ==
    \A c \in UserDefined, n \in Names :
       ( /\ classes[c].ns[n].kind # "none"
         /\ classes[c].ns[n].m.override \/ Outer(classes[c].ns[n]).override )
       => \E k \in 2..Len(classes[c].mro) :
             classes[classes[c].mro[k]].ns[n].kind # "none"

\* A constructed class holds validated overrides of both names.
C10_Witness ==
    \E c \in UserDefined : \A n \in Names : Tagged(c, n)

\* C11: allow_any_override sets the exemption flag on the object it is
\* handed and returns that object: the namespace value is the same kind of
\* object with the same signature, its other flags, the function a pending
\* override wraps and the other name's object are as before, the call is
\* always possible, and a second application changes nothing.
C11_MarkExemptSetsOnlyTheFlag ==
    [][ \A n \in Names :
          /\ cur.pc = "body" => ENABLED MarkExempt(n)
          /\ lastCall'.ran = "allow_any_override" /\ lastCall'.name = n =>
               /\ Outer(cur'.ns[n]).exempt
               /\ cur'.ns[n].kind = cur.ns[n].kind
               /\ cur'.ns[n].sig = cur.ns[n].sig
               /\ \A f \in {"override", "final", "abstract"} :
                     Outer(cur'.ns[n])[f] = Outer(cur.ns[n])[f]
               /\ cur.ns[n].kind = "pending" => cur'.ns[n].m = cur.ns[n].m
               /\ \A o \in Names \ {n} : cur'.ns[o] = cur.ns[o]
               /\ cur'.pc = "body"
               /\ allow_any_override(cur'.ns[n]) = cur'.ns[n]
               /\ Outer(cur.ns[n]).exempt => cur' = cur
      ]_vars

\* allow_any_override has just marked a pending override whose wrapped
\* function is unmarked and whose other flags are set, after it had marked
\* the plain function of the other name.
C11_Witness ==
    /\ lastCall = [cls |-> "", name |-> "__call__", ran |-> "allow_any_override"]
    /\ cur.ns["__call__"].kind = "pending"
    /\ cur.ns["__call__"].p.exempt /\ ~cur.ns["__call__"].m.exempt
    /\ cur.ns["__call__"].p.final /\ cur.ns["__call__"].p.abstract
    /\ cur.ns["dummy_inputs"].kind = "func"
    /\ cur.ns["dummy_inputs"].m.exempt

\* C12: no step clears an exemption flag.  A defined class stays defined
\* and an exempt method of it stays exempt; an exempt function of the
\* running class statement stays exempt while the statement runs and in the
\* class once bound (it goes only when the failed statement's class is
\* dropped); an exempt pending override object stays exempt as long as the
\* statement runs.
C12_ExemptionNeverCleared ==
    [][ /\ \A c \in Defined, n \in Names :
             /\ c \in Defined'
             /\ classes[c].ns[n].m.exempt =>
                  classes'[c].ns[n].kind # "none" /\ classes'[c].ns[n].m.exempt
        /\ \A n \in Names :
             /\ cur.ns[n].kind # "none" /\ cur.ns[n].m.exempt =>
                  \/ cur'.id = cur.id /\ cur'.ns[n].kind # "none" /\ cur'.ns[n].m.exempt
                  \/ /\ cur.pc = "created"
                     /\ cur.id \in Defined'
                     /\ classes'[cur.id].ns[n].kind # "none"
                     /\ classes'[cur.id].ns[n].m.exempt
                  \/ cur.pc = "failed" /\ cur'.pc = "idle"
             /\ cur.ns[n].kind = "pending" /\ cur.ns[n].p.exempt /\ cur'.id = cur.id =>
                  cur'.ns[n].kind = "pending" /\ cur'.ns[n].p.exempt
      ]_vars

\* A user class's method was marked exempt and then validated as an
\* override; a second class has overridden it, has been instantiated and
\* called; the first class's method and Quant.__call__ are still exempt.
C12_Witness ==
    /\ Len(UserClassNames) >= 2
    /\ LET a == UserClassNames[1]
           b == UserClassNames[2]
       IN  /\ {a, b} \subseteq Defined
           /\ Tagged(a, "__call__") /\ classes[a].ns["__call__"].m.exempt
           /\ Tagged(b, "__call__") /\ classes[b].mro[2] = a
           /\ lastCall = [cls |-> b, name |-> "__call__", ran |-> b]
    /\ classes["Quant"].ns["__call__"].m.exempt

\* C13: Quant.__call__ is exempt, and resolution leaves exemption flags
\* alone.  No step changes a defined class (the parent's flags stay as they
\* are); while a class statement runs, the exemption flags of the functions
\* and pending objects of its namespace are the ones the body's decorators
\* left, and the bound class holds the functions with the same flags; so an
\* installed override whose pending object was not exempt is not exempt.
C13_ResolutionLeavesExemptionAlone ==
    [][ /\ classes["Quant"].ns["__call__"].m.exempt
        /\ classes'["Quant"].ns["__call__"].m.exempt
        /\ \A c \in Defined : c \in Defined' /\ classes'[c] = classes[c]
        /\ \A n \in Names :
             /\ cur.pc \in {"set_name", "created"} /\ cur'.id = cur.id =>
                  /\ cur'.ns[n].kind = cur.ns[n].kind
                  /\ cur'.ns[n].m.exempt = cur.ns[n].m.exempt
                  /\ cur'.ns[n].p.exempt = cur.ns[n].p.exempt
                  /\ n \in cur'.installed /\ ~cur'.ns[n].p.exempt =>
                       ~cur'.ns[n].m.exempt
             /\ cur.pc = "created" /\ cur.id \in Defined' =>
                  /\ classes'[cur.id].ns[n].kind = "none" <=> cur.ns[n].kind = "none"
                  /\ classes'[cur.id].ns[n].m.exempt = cur.ns[n].m.exempt
      ]_vars

\* A Quant subclass overrides the exempt Quant.__call__ with a signature of
\* its own; its __call__ is validated and not exempt, Quant.__call__ is as
\* it was, and an instance's __call__ has run the subclass's method.
C13_Witness ==
    \E c \in UserDefined :
       /\ classes[c].mro[2] = "Quant"
       /\ Tagged(c, "__call__")
       /\ ~classes[c].ns["__call__"].m.exempt
       /\ classes[c].ns["__call__"].sig = 1
       /\ classes["Quant"].ns["__call__"] = QuantCall
       /\ lastCall = [cls |-> c, name |-> "__call__", ran |-> c]

\* c is a Quant subclass that can be instantiated.
Concrete(c) == c \in UserDefined /\ IsQuant(c) /\ classes[c].abstracts = {}

\* C14: for every Quant subclass that can be instantiated, dummy_inputs
\* returns a non-empty list of dicts and each dict expands into __call__
\* without an exception; the self-check loop on an instance passes.
C14_DummyInputsExpandIntoCall ==
    /\ \A c \in UserDefined :
         Concrete(c) =>
           LET d == Method(c, "dummy_inputs").does
           IN  /\ d.raises = ""
               /\ d.value.type = "list"
               /\ Len(d.value.items) > 0
               /\ \A i \in 1..Len(d.value.items) :
                     /\ d.value.items[i].type = "dict"
                     /\ Expand(c, d.value.items[i]) = ""
    /\ lastCall.name = "dummy_inputs" /\ IsQuant(lastCall.cls) =>
         lastCall.ran = "passed"

\* C15: the parent an override is decided against is the entry of the first
\* class after the owner in the owner's MRO whose own namespace has the
\* name, and the decision depends on that entry alone: it fails as sealed
\* exactly when that entry is sealed and as parentless exactly when there is
\* no such class, whatever flags the deeper ancestors' entries and the
\* owner's own entry carry.
C15_NearestDefinitionDecides ==
    /\ \A n \in Names :
         Running /\ cur.ns[n].kind = "pending" =>
           /\ NearestPos(cur.mro, n) = {} <=> ParentClass(cur.mro, n) = ""
           /\ \A k \in NearestPos(cur.mro, n) :
                 /\ ParentClass(cur.mro, n) = cur.mro[k]
                 /\ Resolve(cur.mro, n) = "final" <=> classes[cur.mro[k]].ns[n].m.final
                 /\ Resolve(cur.mro, n) = "install" <=> ~classes[cur.mro[k]].ns[n].m.final
           /\ cur.pc = "failed" /\ cur.errName = n /\ cur.error = "final" =>
                 \E k \in NearestPos(cur.mro, n) : classes[cur.mro[k]].ns[n].m.final
           /\ cur.pc = "failed" /\ cur.errName = n /\ cur.error = "no_parent" =>
                 NearestPos(cur.mro, n) = {}
           /\ n \in cur.installed =>
                 \E k \in NearestPos(cur.mro, n) : ~classes[cur.mro[k]].ns[n].m.final
    /\ \A c \in UserDefined, n \in Names :
         Tagged(c, n) =>
           \E k \in NearestPos(classes[c].mro, n) :
              ~classes[classes[c].mro[k]].ns[n].m.final

\* A class with two bases overrides a name that both define: the entry of
\* the base that comes first in the MRO is not sealed, a deeper class's
\* entry is sealed, and the override is installed.
C15_Witness ==
    \E c \in UserDefined, n \in Names :
       /\ Tagged(c, n)
       /\ \E k \in NearestPos(classes[c].mro, n) :
             /\ ~classes[classes[c].mro[k]].ns[n].m.final
             /\ \E j \in (k + 1)..Len(classes[c].mro) :
                   /\ classes[classes[c].mro[j]].ns[n].kind # "none"
                   /\ classes[classes[c].mro[j]].ns[n].m.final

\* C16: a method decorated with override shows the validated-override
\* marker wherever the enforcement can look.  In every state of a running
\* class statement the namespace value of such a name (the pending object)
\* carries the marker, the owner's attribute (the pending object, or the
\* plain method once installed) carries it, the name is not among those the
\* enforcement finds unmarked, and a missing-marker rejection is never for
\* such a name.
C16_OverrideAlwaysShowsMarker ==
    /\ \A n \in Names :
         Running /\ cur.ns[n].kind = "pending" =>
            /\ cur.ns[n].p.override
            /\ Outer(ClassDict(cur, n)).override
            /\ n \in cur.installed => cur.ns[n].m.override
            /\ n \notin MissingOverride(cur)
            /\ n \notin MissingOverride([cur EXCEPT !.ns = [o \in Names |-> ClassDict(cur, o)]])
    /\ cur.pc = "failed" /\ cur.error = "missing_override" =>
         cur.ns[cur.errName].kind # "pending"

\* The enforcement has inspected, and accepted, the namespace of a Quant
\* subclass before any __set_name__ has fired: both names are pending
\* overrides whose marker is on the pending object only.
C16_Witness ==
    /\ cur.pc = "set_name"
    /\ cur.enforced /\ Meta(cur.bases) = "EnforceOverridesMeta"
    /\ cur.installed = {}
    /\ \A n \in Names :
          /\ cur.ns[n].kind = "pending"
          /\ cur.ns[n].p.override
          /\ ~cur.ns[n].m.override

\* C17: a resolution that fails for want of a parent or against a sealed
\* parent changes no object: the step that raises leaves the namespace's
\* objects, the installed names and the defined classes as they were, the
\* failing method is untagged and the owner's attribute is still the
\* pending object.  A method is tagged only in the step that installs it,
\* and that step is taken only when a parent exists and is not sealed.
C17_FailedResolutionChangesNothing ==
    [][ /\ ( /\ cur.pc = "set_name"
             /\ cur'.pc = "failed"
             /\ cur'.error \in {"no_parent", "final"} )
           => /\ cur'.ns = cur.ns
              /\ cur'.installed = cur.installed
              /\ classes' = classes
              /\ cur'.errName = cur.order[cur.idx]
              /\ ~cur'.ns[cur'.errName].m.override
              /\ cur'.errName \notin cur'.installed
              /\ ClassDict(cur', cur'.errName).kind = "pending"
        /\ \A n \in Names :
             ( /\ cur.pc = "set_name" /\ cur'.id = cur.id
               /\ \/ cur'.ns[n].m.override /\ ~cur.ns[n].m.override
                  \/ n \in cur'.installed \ cur.installed )
             => /\ cur'.ns[n].m.override
                /\ n \in cur'.installed
                /\ cur'.pc # "failed"
                /\ \E k \in NearestPos(cur.mro, n) : ~classes[cur.mro[k]].ns[n].m.final
      ]_vars

\* A resolution has failed after an earlier method of the same body was
\* installed: the earlier one is tagged and installed, the failing one is
\* an untagged pending override.
C17_Witness ==
    /\ cur.pc = "failed"
    /\ cur.error \in {"no_parent", "final"}
    /\ cur.installed # {}
    /\ \A n \in cur.installed : cur.ns[n].m.override
    /\ cur.ns[cur.errName].kind = "pending"
    /\ ~cur.ns[cur.errName].m.override
    /\ cur.errName \notin cur.installed

\* C18: a constructed class holds no pending override.  The step that binds
\* a class leaves, for every name its body decorated with override, the
\* function the body defined (its signature, body and flags) with the
\* validated-override tag as the class's own attribute; no class ever holds
\* a pending object; and a call of such a name on an instance runs the
\* class's own definition.
C18_ConstructedClassHoldsPlainMethods ==
    [][ /\ \A c \in DOMAIN classes', n \in Names :
             classes'[c].ns[n].kind # "pending"
        /\ \A n \in Names :
             cur.pc = "created" /\ cur.id \in DOMAIN classes' /\ cur.ns[n].kind = "pending"
             => /\ classes'[cur.id].ns[n].kind = "func"
                /\ classes'[cur.id].ns[n].sig = cur.ns[n].sig
                /\ classes'[cur.id].ns[n].does = cur.ns[n].does
                /\ classes'[cur.id].ns[n].m = cur.ns[n].m
                /\ classes'[cur.id].ns[n].m.override
        /\ \A c \in UserDefined, n \in Names :
             Tagged(c, n) /\ lastCall'.cls = c /\ lastCall'.name = n
             => lastCall'.ran = c
      ]_vars

\* A class whose body decorated both names with override is constructed,
\* both attributes are plain tagged functions, and dummy_inputs called on
\* an instance ran the class's own definition.
C18_Witness ==
    \E c \in UserDefined :
       /\ \A n \in Names : Tagged(c, n) /\ classes[c].ns[n].kind = "func"
       /\ inst = c
       /\ lastCall = [cls |-> c, name |-> "dummy_inputs", ran |-> c]

====
